---- MODULE Spec2Model ----
(***************************************************************************)
(* Model of src/extension.ts of vscode-taskexplorer: the activation        *)
(* sequence (activate, _activate, tryInit, registerAntTaskProvider,        *)
(* registerExplorer, registerHoverProvider, configureHttpRequest) and the  *)
(* event handlers it installs (file watchers, workspace-folder listener,   *)
(* configuration listener, text-document listener).                        *)
(*                                                                         *)
(* The caches themselves (tasks.ts, scriptHover.ts) and the tree provider  *)
(* (taskView.ts) are not part of the source at hand; their operations are  *)
(* modelled after the specification (section 4.1: get populates if absent, *)
(* invalidate(scope | all) clears entries).                                *)
(*                                                                         *)
(* JavaScript runs every callback to completion: activate() performs no    *)
(* real suspension (tryInit contains no await), so the host delivers       *)
(* events only once the promise returned by activate has settled.          *)
(***************************************************************************)
EXTENDS Integers, Sequences, FiniteSets, TLC

\* ---------------------------------------------------------------- bounds
MaxFolders == 1
NumDocs == 2

Docs == 1..NumDocs
\* invalidateHoverScriptsCache() called without a document
NoDoc == 0

\* ------------------------------------------------------- host configuration
Unset == "unset"
ProxyValues == {Unset, "http://proxy"}
StrictValues == {Unset, "false"}

\* the settings configureHttpRequest reads: http.proxy and http.proxyStrictSSL
Stores == [proxy : ProxyValues, proxyStrictSSL : StrictValues]

\* the sections a configuration change may touch besides http
OtherSections == {"taskView.exclude"}

\* a ConfigurationChangeEvent: the store after the change and the sections
\* outside http whose values changed
ConfigurationChanges == [store : Stores, changed : SUBSET OtherSections]

\* WorkspaceConfiguration.get(key, default)
Get(value, default) == IF value = Unset THEN default ELSE value

\* the arguments configureHttpRequest hands to httpRequest.configure
HttpSettings(store) ==
  [proxy |-> Get(store.proxy, ""), strictSSL |-> Get(store.proxyStrictSSL, "true")]

NotConfigured == [proxy |-> "never", strictSSL |-> "never"]

\* ConfigurationChangeEvent.affectsConfiguration(section)
affectsConfiguration(e, section) == section \in e.changed

\* ------------------------------------------------------------ cache entries
\* An entry is invalid (absent), or valid and tagged with how it relates to
\* the world it was parsed from: "fresh" (parsed from the current files under
\* the current exclusion setting), "stale" (a file, folder or document event
\* happened since), "oldExclude" (parsed under a previous exclusion setting).
EntryStates == {"invalid", "fresh", "stale", "oldExclude"}

IsValid(e) == e # "invalid"

\* ------------------------------------------------------------ registrations
Watchers == {"watcher.buildxml", "watcher.packagejson", "watcher.tasksjson"}
FileEventKinds == {"create", "change", "delete"}

VARIABLES
  pc,                \* position in the activation sequence
  workspaceFolders,  \* number of open folders; 0 is workspace.workspaceFolders === undefined
  store,             \* the host configuration store
  live,              \* registrations made with the host and not disposed
  subscriptions,     \* context.subscriptions
  disposables,       \* the disposables array of activate()
  treeDataProvider,  \* module variable: TRUE when set, FALSE when undefined
  logOutputChannel,  \* module variable: TRUE when set
  activateResult,    \* "pending" | "resolved" | "rejected"
  startedWithFolders,\* workspace.workspaceFolders was set when activate ran
  failedAt,          \* the step of _activate that threw, or "none"
  consoleErrors,     \* number of errors written with console.error
  tasksCache,        \* the tasks cache (tasks.ts)
  hoverCache,        \* the hover-scripts cache (scriptHover.ts), per document
  treeDirty,         \* a tree refresh was issued and the tree has not re-read yet
  httpApplied,       \* the values last handed to httpRequest.configure
  handlerError,      \* an event handler threw
  last               \* the last operation: its name, its calls in order, what it read

vars == << pc, workspaceFolders, store, live, subscriptions, disposables,
           treeDataProvider, logOutputChannel,
           activateResult, startedWithFolders, failedAt, consoleErrors, tasksCache, hoverCache, treeDirty,
           httpApplied, handlerError, last >>

\* last: the operation (op, src, kind, doc), whether a registered listener
\* handled it, whether it repeats the event before it, the calls the handler
\* made in order, and the entry a read returned
Op(name, src, kind, doc, handled, calls, ret) ==
  [op |-> name, src |-> src, kind |-> kind, doc |-> doc,
   handled |-> handled, repeat |-> FALSE, calls |-> calls, ret |-> ret]

SameEvent(a, b) ==
  /\ a.op = b.op /\ a.src = b.src /\ a.kind = b.kind /\ a.doc = b.doc
  /\ a.op \in {"fileEvent", "workspaceFolders", "configuration", "textDocument"}

NoOp == Op("none", "none", "none", NoDoc, FALSE, << >>, "none")

\* ------------------------------------------------------------------ memory
\* The state an event handler reads and writes, as one record, so that a
\* handler is the composition of its calls in source order.
Mem ==
  [tasksCache |-> tasksCache, hoverCache |-> hoverCache, treeDirty |-> treeDirty,
   httpApplied |-> httpApplied, calls |-> << >>, error |-> FALSE]

Called(m, name) == [m EXCEPT !.calls = Append(@, name)]

\* ------------------------------------------- operations of the other modules
\* tasks.ts: invalidateTasksCache() clears the tasks cache
invalidateTasksCache(m) ==
  [Called(m, "invalidateTasksCache") EXCEPT !.tasksCache = "invalid"]

\* scriptHover.ts: invalidateHoverScriptsCache(document?) clears the entry of
\* the document, or every entry when called without a document
invalidateHoverScriptsCache(m, doc) ==
  [Called(m, "invalidateHoverScriptsCache") EXCEPT
     !.hoverCache = [d \in Docs |-> IF doc = NoDoc \/ d = doc THEN "invalid" ELSE @[d]]]

\* taskView.ts: TaskTreeDataProvider.refresh() asks the host to re-read the
\* tree; on an undefined provider the call is a TypeError
refresh(m) ==
  IF treeDataProvider
    THEN [Called(m, "refresh") EXCEPT !.treeDirty = TRUE]
    ELSE [Called(m, "refresh") EXCEPT !.error = TRUE]

\* tasks.ts: reading the tasks populates the cache when it is invalid
getTasks(m) ==
  IF IsValid(m.tasksCache) THEN m ELSE [m EXCEPT !.tasksCache = "fresh"]

\* scriptHover.ts: a hover on document d populates its entry when invalid
getHoverScripts(m, d) ==
  IF IsValid(m.hoverCache[d]) THEN m ELSE [m EXCEPT !.hoverCache[d] = "fresh"]

\* ------------------------------------------------- what the events change
\* A change of the files or folders outdates what was parsed from them.
Outdate(e) == IF IsValid(e) THEN "stale" ELSE e

FilesChanged(m, watcher) ==
  [m EXCEPT !.tasksCache = Outdate(@),
            !.hoverCache = IF watcher = "watcher.packagejson"
                             THEN [d \in Docs |-> Outdate(@[d])] ELSE @]

FoldersChanged(m) ==
  [m EXCEPT !.tasksCache = Outdate(@),
            !.hoverCache = [d \in Docs |-> Outdate(@[d])]]

DocumentChanged(m, doc) == [m EXCEPT !.hoverCache[doc] = Outdate(@)]

\* A change of the exclusion setting: fresh entries were populated under the
\* previous setting.
Unexclude(e) == IF e = "fresh" THEN "oldExclude" ELSE e

ExcludeChanged(m, e) ==
  IF "taskView.exclude" \notin e.changed THEN m
  ELSE [m EXCEPT !.tasksCache = Unexclude(@),
                 !.hoverCache = [d \in Docs |-> Unexclude(@[d])]]

\* ------------------------------------------------------- extension.ts: handlers
configureHttpRequest(m, st) ==
  [Called(m, "configureHttpRequest") EXCEPT !.httpApplied = HttpSettings(st)]

\* variants of the handlers with one plausible slip each
invalidateScriptCaches_TasksOnly(m) ==
  LET m2 == invalidateTasksCache(m)
  IN  IF treeDataProvider THEN refresh(m2) ELSE m2

invalidateScriptCaches_RefreshFirst(m) ==
  LET m0 == IF treeDataProvider THEN refresh(m) ELSE m
      m1 == invalidateHoverScriptsCache(m0, NoDoc)
  IN  invalidateTasksCache(m1)

invalidateScriptCaches_ElseIf(m) ==
  LET m1 == IF \E d \in Docs : IsValid(m.hoverCache[d])
              THEN invalidateHoverScriptsCache(m, NoDoc)
              ELSE invalidateTasksCache(m)
  IN  IF treeDataProvider THEN refresh(m1) ELSE m1

invalidateScriptCaches(m) ==
  LET m1 == invalidateHoverScriptsCache(m, NoDoc)
      m2 == invalidateTasksCache(m1)
  IN  IF treeDataProvider THEN refresh(m2) ELSE m2

onDidChangeConfiguration_Unguarded(m, e) ==
  LET m1 == configureHttpRequest(m, e.store)
  IN  IF affectsConfiguration(e, "taskView.exclude")
        THEN refresh(invalidateTasksCache(m1))
        ELSE m1

onDidChangeConfiguration_ConfigureInsideIf(m, e) ==
  IF affectsConfiguration(e, "taskView.exclude")
    THEN LET m2 == invalidateTasksCache(configureHttpRequest(m, e.store))
         IN  IF treeDataProvider THEN refresh(m2) ELSE m2
    ELSE m

onDidChangeConfiguration_Always(m, e) ==
  LET m2 == invalidateTasksCache(configureHttpRequest(m, e.store))
  IN  IF treeDataProvider THEN refresh(m2) ELSE m2

onDidChangeConfiguration(m, e) ==
  LET m1 == configureHttpRequest(m, e.store)
  IN  IF affectsConfiguration(e, "taskView.exclude")
        THEN LET m2 == invalidateTasksCache(m1)
             IN  IF treeDataProvider THEN refresh(m2) ELSE m2
        ELSE m1

onDidChangeTextDocument_AllDocuments(m, doc) ==
  invalidateHoverScriptsCache(m, NoDoc)

onDidChangeTextDocument(m, doc) == invalidateHoverScriptsCache(m, doc)

\* ---------------------------------------------------- extension.ts: activation
\* One step of the activation sequence: the registrations it makes with the
\* host, what it pushes to context.subscriptions and to disposables, and
\* whether it sits under "if (workspace.workspaceFolders)".
Step(name, reg, sub, disp, guarded) ==
  [name |-> name, reg |-> reg, sub |-> sub, disp |-> disp, guarded |-> guarded]

WatcherStep(w) == Step(w, {w}, {w}, {}, TRUE)

\* _activate, lines 44-51; showing the channel (lines 48-51) changes nothing
\* the extension reads back, so that step only marks a place that may throw
createOutputChannel ==
  << Step("createOutputChannel", {"outputChannel"}, {}, {}, FALSE),
     Step("registerCommand.showOutput", {"cmd.showOutput"}, {}, {}, FALSE),
     Step("disposables.push", {}, {}, {"outputChannel"}, FALSE),
     Step("showOutput", {}, {}, {}, FALSE) >>

registerAntTaskProvider ==
  << WatcherStep("watcher.buildxml"),
     WatcherStep("watcher.packagejson"),
     WatcherStep("watcher.tasksjson"),
     Step("workspaceWatcher", {"workspaceWatcher"}, {"workspaceWatcher"}, {}, TRUE),
     Step("registerTaskProvider", {"taskProvider.ant"}, {}, {}, TRUE) >>

registerExplorer ==
  << Step("registerExplorer", {"treeView"}, {"treeView"}, {}, TRUE) >>

registerHoverProvider ==
  << Step("registerHoverProvider", {"hoverProvider"}, {"hoverProvider"}, {}, TRUE) >>

tryInit ==
  registerAntTaskProvider \o registerExplorer \o registerHoverProvider \o
  << Step("configureHttpRequest", {}, {}, {}, FALSE),
     Step("onDidChangeConfiguration",
          {"onDidChangeConfiguration"}, {"onDidChangeConfiguration"}, {}, FALSE),
     Step("onDidChangeTextDocument",
          {"onDidChangeTextDocument"}, {"onDidChangeTextDocument"}, {}, FALSE),
     Step("registerCommand.runSelectedScript",
          {"cmd.runSelectedScript"}, {"cmd.runSelectedScript"}, {}, FALSE),
     Step("addJSONProviders", {"jsonProviders"}, {"jsonProviders"}, {}, FALSE),
     Step("log", {}, {}, {}, FALSE) >>

ActivateSteps == createOutputChannel \o tryInit

NotStarted == 0
Settled == Len(ActivateSteps) + 1

\* "if (workspace.workspaceFolders)": undefined is falsy
HasFolders == workspaceFolders > 0

Runs(step) == step.guarded => HasFolders

ActivateSettles_NoCatch(threw) ==
  [result |-> IF threw THEN "rejected" ELSE "resolved", logged |-> 0]

\* activate, line 38: the rejection of _activate is caught and logged
ActivateSettles(threw) ==
  [result |-> "resolved", logged |-> IF threw THEN 1 ELSE 0]

\* the entry activate pushes to context.subscriptions before _activate runs
DisposablesEntry == "disposablesEntry"

\* what disposing context.subscriptions disposes: its entries, and through
\* the entry activate pushed first, the disposables collected so far
DisposedWithContext ==
  (subscriptions \ {DisposablesEntry})
    \cup (IF DisposablesEntry \in subscriptions THEN disposables ELSE {})

\* the extension context has been disposed
Deactivated == Settled + 1

Init ==
  /\ pc = NotStarted
  /\ workspaceFolders \in 0..MaxFolders
  /\ store \in Stores
  /\ live = {}
  /\ subscriptions = {}
  /\ disposables = {}
  /\ treeDataProvider = FALSE
  /\ logOutputChannel = FALSE
  /\ activateResult = "pending"
  /\ startedWithFolders = FALSE
  /\ failedAt = "none"
  /\ consoleErrors = 0
  /\ tasksCache = "invalid"
  /\ hoverCache = [d \in Docs |-> "invalid"]
  /\ treeDirty = FALSE
  /\ httpApplied = NotConfigured
  /\ handlerError = FALSE
  /\ last = NoOp

\* activate, lines 33-36
Activate ==
  /\ pc = NotStarted
  /\ pc' = 1
  /\ subscriptions' = subscriptions \cup {DisposablesEntry}
  /\ startedWithFolders' = HasFolders
  /\ last' = Op("activate", "none", "none", NoDoc, TRUE, << >>, "none")
  /\ UNCHANGED << workspaceFolders, store, live, disposables, treeDataProvider,
                  logOutputChannel, activateResult,
                  failedAt, consoleErrors, tasksCache, hoverCache, treeDirty,
                  httpApplied, handlerError >>

Settle(threw) ==
  /\ activateResult' = ActivateSettles(threw).result
  /\ consoleErrors' = consoleErrors + ActivateSettles(threw).logged

\* one statement of _activate / tryInit runs without throwing
ActivateStep ==
  /\ pc \in 1..Len(ActivateSteps)
  /\ LET step == ActivateSteps[pc]
         runs == Runs(step)
     IN  /\ live' = IF runs THEN live \cup step.reg ELSE live
         /\ subscriptions' = IF runs THEN subscriptions \cup step.sub ELSE subscriptions
         /\ disposables' = IF runs THEN disposables \cup step.disp ELSE disposables
         /\ logOutputChannel' = (logOutputChannel \/ step.name = "createOutputChannel")
         /\ treeDataProvider' =
              IF step.name = "registerExplorer" THEN HasFolders ELSE treeDataProvider
         /\ httpApplied' =
              IF step.name = "configureHttpRequest"
                THEN configureHttpRequest(Mem, store).httpApplied ELSE httpApplied
         /\ last' = Op("activate", step.name, "none", NoDoc, TRUE, << >>, "none")
  /\ pc' = pc + 1
  /\ IF pc' = Settled
       THEN Settle(FALSE)
       ELSE UNCHANGED << activateResult, consoleErrors >>
  /\ UNCHANGED << workspaceFolders, store, startedWithFolders, failedAt, tasksCache,
                  hoverCache, treeDirty, handlerError >>

\* the statement _activate is about to run throws
ActivateThrow ==
  /\ pc \in 1..Len(ActivateSteps)
  /\ Runs(ActivateSteps[pc])
  /\ pc' = Settled
  /\ failedAt' = ActivateSteps[pc].name
  /\ Settle(TRUE)
  /\ last' = Op("throw", ActivateSteps[pc].name, "none", NoDoc, TRUE, << >>, "none")
  /\ UNCHANGED << workspaceFolders, store, live, subscriptions, disposables,
                  treeDataProvider, logOutputChannel, startedWithFolders,
                  tasksCache, hoverCache, treeDirty, httpApplied, handlerError >>

\* ------------------------------------------------------------------ events
\* tryInit as if it awaited between registerAntTaskProvider and
\* registerExplorer: the host could deliver an event in between
EventLoopIdle_AwaitBeforeExplorer ==
  \/ pc = Settled
  \/ (pc \in DOMAIN ActivateSteps /\ ActivateSteps[pc].name = "registerExplorer")

\* The host runs a callback only when no JavaScript is running. From the call
\* of activate to the settling of its promise nothing yields to the event
\* loop: tryInit (lines 53-80) contains no await, and the awaits of lines 82
\* and 38 are followed by microtasks only.
EventLoopIdle == pc = Settled

\* the handler has returned: its writes become the state
Commit(m, op) ==
  /\ tasksCache' = m.tasksCache
  /\ hoverCache' = m.hoverCache
  /\ treeDirty' = m.treeDirty
  /\ httpApplied' = m.httpApplied
  /\ handlerError' = (handlerError \/ m.error)
  /\ last' = [op EXCEPT !.calls = m.calls, !.repeat = SameEvent(last, op)]

Activation == << pc, live, subscriptions, disposables, treeDataProvider,
                 logOutputChannel, activateResult,
                 startedWithFolders, failedAt, consoleErrors >>

\* a file matching the pattern of watcher w is created, changed or deleted
FileEvent(w, kind) ==
  /\ EventLoopIdle
  /\ LET m0 == FilesChanged(Mem, w)
         m  == IF w \in live THEN invalidateScriptCaches(m0) ELSE m0
     IN  Commit(m, Op("fileEvent", w, kind, NoDoc, w \in live, << >>, "none"))
  /\ UNCHANGED << Activation, workspaceFolders, store >>

\* a workspace folder is added or removed
WorkspaceFoldersEvent(n) ==
  /\ EventLoopIdle
  /\ n # workspaceFolders
  /\ workspaceFolders' = n
  /\ LET m0 == FoldersChanged(Mem)
         handled == "workspaceWatcher" \in live
         m  == IF handled THEN invalidateScriptCaches(m0) ELSE m0
     IN  Commit(m, Op("workspaceFolders", "none", "none", NoDoc, handled, << >>, "none"))
  /\ UNCHANGED << Activation, store >>

\* the host configuration changes: the store now reads e.store
ConfigurationEvent(e) ==
  /\ EventLoopIdle
  /\ (e.store # store \/ e.changed # {})
  /\ store' = e.store
  /\ LET m0 == ExcludeChanged(Mem, e)
         handled == "onDidChangeConfiguration" \in live
         m  == IF handled THEN onDidChangeConfiguration(m0, e) ELSE m0
         kind == IF "taskView.exclude" \in e.changed THEN "exclude" ELSE "other"
     IN  Commit(m, Op("configuration", "none", kind, NoDoc, handled, << >>, "none"))
  /\ UNCHANGED << Activation, workspaceFolders >>

\* the text of document doc changes
TextDocumentEvent(doc) ==
  /\ EventLoopIdle
  /\ LET m0 == DocumentChanged(Mem, doc)
         handled == "onDidChangeTextDocument" \in live
         m  == IF handled THEN onDidChangeTextDocument(m0, doc) ELSE m0
     IN  Commit(m, Op("textDocument", "none", "none", doc, handled, << >>, "none"))
  /\ UNCHANGED << Activation, workspaceFolders, store >>

\* ------------------------------------------------------------------- reads
\* the host asks a registered reader (tree view, 'ant' task provider) for tasks
ReadTasks(reader) ==
  /\ EventLoopIdle
  /\ reader \in live
  /\ LET m  == getTasks(Mem)
         m1 == IF reader = "treeView" THEN [m EXCEPT !.treeDirty = FALSE] ELSE m
     IN  Commit(m1, Op("getTasks", reader, "none", NoDoc, TRUE, << >>, m.tasksCache))
  /\ UNCHANGED << Activation, workspaceFolders, store >>

\* the host asks the registered hover provider for a hover in document doc
ProvideHover(doc) ==
  /\ EventLoopIdle
  /\ "hoverProvider" \in live
  /\ LET m == getHoverScripts(Mem, doc)
     IN  Commit(m, Op("provideHover", "hoverProvider", "none", doc, TRUE, << >>,
                      m.hoverCache[doc]))
  /\ UNCHANGED << Activation, workspaceFolders, store >>

\* ------------------------------------------------------------ deactivation
\* The host deactivates the extension: deactivate() (lines 165-167) does
\* nothing, then context.subscriptions is disposed; nothing of the extension
\* runs afterwards.
Deactivate ==
  /\ pc = Settled
  /\ pc' = Deactivated
  /\ live' = live \ DisposedWithContext
  /\ last' = Op("deactivate", "none", "none", NoDoc, TRUE, << >>, "none")
  /\ UNCHANGED << workspaceFolders, store, subscriptions, disposables,
                  treeDataProvider, logOutputChannel, activateResult,
                  startedWithFolders, failedAt, consoleErrors, tasksCache,
                  hoverCache, treeDirty, httpApplied, handlerError >>

Next ==
  \/ Activate
  \/ ActivateStep
  \/ ActivateThrow
  \/ \E w \in Watchers, kind \in FileEventKinds : FileEvent(w, kind)
  \/ \E n \in 0..MaxFolders : WorkspaceFoldersEvent(n)
  \/ \E e \in ConfigurationChanges : ConfigurationEvent(e)
  \/ \E doc \in Docs : TextDocumentEvent(doc)
  \/ \E reader \in {"treeView", "taskProvider.ant"} : ReadTasks(reader)
  \/ \E doc \in Docs : ProvideHover(doc)
  \/ Deactivate

Spec == Init /\ [][Next]_vars

\* ================================================================== claims

Calls == {last.calls[i] : i \in DOMAIN last.calls}

\* _activate ran every statement: no step threw
Activated == pc = Settled /\ failedAt = "none"

AllHoverInvalid == \A d \in Docs : hoverCache[d] = "invalid"

\* C1: after an activation that ran with at least one workspace folder,
\* every create, change or delete event of each of the three watchers is
\* handled, and right after the handler both the tasks cache and the whole
\* hover-scripts cache are invalid and a tree refresh has been issued.
C1_FileEventInvalidates ==
  \A w \in Watchers, kind \in FileEventKinds :
    (Activated /\ startedWithFolders
       /\ last.op = "fileEvent" /\ last.src = w /\ last.kind = kind)
    => /\ last.handled
       /\ tasksCache = "invalid"
       /\ AllHoverInvalid
       /\ "refresh" \in Calls
       /\ treeDirty

\* a delete of .vscode/tasks.json was handled after a complete activation
C1_Witness ==
  /\ Activated /\ startedWithFolders
  /\ last.op = "fileEvent" /\ last.src = "watcher.tasksjson" /\ last.kind = "delete"
  /\ last.calls = << "invalidateHoverScriptsCache", "invalidateTasksCache", "refresh" >>
  /\ treeDirty

\* C2: every workspace-folder change after a complete activation is handled
\* by invalidateScriptCaches, which invalidates the tasks cache and the
\* hover-scripts cache, whatever the number of folders open at activation
\* (zero included).
C2_FolderChangeInvalidates ==
  (Activated /\ last.op = "workspaceFolders")
  => /\ last.handled
     /\ "invalidateTasksCache" \in Calls
     /\ "invalidateHoverScriptsCache" \in Calls
     /\ tasksCache = "invalid"
     /\ AllHoverInvalid

\* C3: a configuration change that affects taskView.exclude invalidates the
\* tasks cache and every hover-scripts entry and (a tree provider existing)
\* issues a tree refresh; no later read returns an entry populated under the
\* previous exclusion setting.
C3_ExcludeChangeInvalidatesAll ==
  /\ (Activated /\ last.op = "configuration" /\ last.kind = "exclude")
     => /\ last.handled
        /\ tasksCache = "invalid"
        /\ AllHoverInvalid
        /\ treeDataProvider => ("refresh" \in Calls /\ treeDirty)
  /\ (Activated /\ last.op \in {"getTasks", "provideHover"})
     => last.ret # "oldExclude"

Invalidations == {"invalidateTasksCache", "invalidateHoverScriptsCache"}

FolderRegistrations ==
  Watchers \cup {"workspaceWatcher", "taskProvider.ant", "treeView", "hoverProvider"}

GuardedSteps == {ActivateSteps[i].name : i \in {k \in DOMAIN ActivateSteps : ActivateSteps[k].guarded}}

\* C5: an activation that ran with zero workspace folders settles resolved,
\* no statement under "if (workspace.workspaceFolders)" runs or throws, no
\* task provider, tree view, hover provider, file watcher or folder listener
\* is registered, the tree provider stays unset, and the handlers that remain
\* (configuration change, text-document change) never throw and never call
\* refresh.
C5_ZeroFoldersTolerated ==
  (pc # NotStarted /\ ~startedWithFolders)
  => /\ live \cap FolderRegistrations = {}
     /\ ~treeDataProvider
     /\ failedAt \notin GuardedSteps
     /\ pc = Settled => activateResult = "resolved"
     /\ Activated =>
          /\ consoleErrors = 0
          /\ {"onDidChangeConfiguration", "onDidChangeTextDocument"} \subseteq live
     /\ ~handlerError
     /\ "refresh" \notin Calls

\* with zero folders the configuration handler ran on an exclusion change
C5_Witness ==
  /\ Activated /\ ~startedWithFolders
  /\ last.op = "configuration" /\ last.kind = "exclude" /\ last.handled
  /\ last.calls = << "configureHttpRequest", "invalidateTasksCache" >>
  /\ ~handlerError

\* C6: whichever statement of _activate throws, the promise of activate
\* resolves and never rejects, the error is logged exactly once with
\* console.error, and the disposables collected so far stay disposable
\* through the entry pushed to context.subscriptions before _activate ran.
C6_ActivationFailureNonFatal ==
  /\ activateResult # "rejected"
  /\ pc >= Settled =>
       /\ activateResult = "resolved"
       /\ consoleErrors = (IF failedAt = "none" THEN 0 ELSE 1)
  /\ pc < Settled => (activateResult = "pending" /\ failedAt = "none")
  /\ pc # NotStarted => DisposablesEntry \in subscriptions
  /\ disposables \subseteq DisposedWithContext

\* registerExplorer threw after the output channel was collected
C6_Witness ==
  /\ pc = Settled /\ failedAt = "registerExplorer"
  /\ activateResult = "resolved" /\ consoleErrors = 1
  /\ "outputChannel" \in disposables
  /\ "outputChannel" \in DisposedWithContext

\* C7: once activation is complete the values applied to the HTTP helper are
\* those of the host store, after any sequence of configuration changes: the
\* configuration listener is registered, and it calls configureHttpRequest
\* first, whichever keys changed.
C7_HttpSettingsFollowStore ==
  /\ Activated => "onDidChangeConfiguration" \in live
  /\ (pc = Settled /\ "onDidChangeConfiguration" \in live)
       => httpApplied = HttpSettings(store)
  /\ (last.op = "configuration" /\ last.handled)
       => (last.calls # << >> /\ last.calls[1] = "configureHttpRequest")

\* two configuration changes in a row that leave taskView.exclude alone
C7_Witness ==
  /\ Activated
  /\ last.op = "configuration" /\ last.kind = "other" /\ last.repeat /\ last.handled
  /\ httpApplied = [proxy |-> "http://proxy", strictSSL |-> "false"]
  /\ store.proxy = "http://proxy" /\ store.proxyStrictSSL = "false"

C9_TextDocumentChangeScoped ==
  [][ last'.op = "textDocument"
      => /\ \A d \in Docs : d # last'.doc => hoverCache'[d] = hoverCache[d]
         /\ tasksCache' = tasksCache
         /\ treeDirty' = treeDirty
         /\ last'.handled =>
              /\ hoverCache'[last'.doc] = "invalid"
              /\ last'.calls = << "invalidateHoverScriptsCache" >> ]_vars

\* document 1 changed while document 2 and the tasks stay cached
C9_Witness ==
  /\ Activated
  /\ last.op = "textDocument" /\ last.doc = 1 /\ last.handled
  /\ hoverCache[1] = "invalid"
  /\ hoverCache[2] = "fresh"
  /\ tasksCache = "fresh"
  /\ ~treeDirty

\* C10: a configuration change that does not affect taskView.exclude leaves
\* the tasks cache, the hover-scripts cache and the tree as they were; the
\* handler only calls configureHttpRequest, which applies the store's values.
C10_OtherConfigurationChangeFrame ==
  [][ (last'.op = "configuration" /\ last'.kind = "other")
      => /\ tasksCache' = tasksCache
         /\ hoverCache' = hoverCache
         /\ treeDirty' = treeDirty
         /\ handlerError' = handlerError
         /\ last'.handled =>
              /\ last'.calls = << "configureHttpRequest" >>
              /\ httpApplied' = HttpSettings(store') ]_vars

\* a proxy change was handled with the tasks and a hover entry cached
C10_Witness ==
  /\ Activated
  /\ last.op = "configuration" /\ last.kind = "other" /\ last.handled
  /\ tasksCache = "fresh"
  /\ \E d \in Docs : hoverCache[d] = "fresh"
  /\ ~treeDirty
  /\ httpApplied.proxy = "http://proxy"

\* the statements of _activate from the first watcher to the assignment of
\* the tree provider (lines 55-56): a throw there leaves callbacks registered
\* and the tree provider unset
BeforeTreeProvider ==
  {"watcher.packagejson", "watcher.tasksjson", "workspaceWatcher",
   "registerTaskProvider", "registerExplorer"}

C12_NoRegistrationOutlivesContext ==
  (pc = Deactivated /\ failedAt = "none") => live = {}

====
